---- MODULE Spec2Model ----
(***************************************************************************)
(* Model of the DoH endpoint of Fail-Safe/nextdns, package endpoint:       *)
(*   - DOHEndpoint (Equal, String, Exchange, RoundTrip) and endpointAddrs, *)
(*   - SupportsDoH3 with its two probes probeDoH3 and probeDoH3Request.    *)
(* A Go string is modelled as the sequence of its characters, so that      *)
(* strings.Contains, net.JoinHostPort and strings.EqualFold are computed   *)
(* the way the code computes them.                                         *)
(***************************************************************************)
EXTENDS Integers, Sequences, FiniteSets, TLC

VARIABLES
  \* ---- the fields of one DOHEndpoint
  Hostname, Path, Bootstrap, ALPN, DoH3Supported, FastestIP, once, transport,
  \* ---- the goroutines calling RoundTrip / Exchange on that endpoint
  pc, via, laddrs, ltr, built, dispatched, calls, sets,
  \* ---- one call of endpointAddrs as a pure function
  ret,
  \* ---- one call of SupportsDoH3
  endpoint, bootstrapIPs, alpnList, ppc, idx, lastErr, err, deadline,
  dials, transports, requests, result,
  \* ---- one goroutine's call of Exchange: the response and what is returned
  ex,
  \* ---- one call of Equal on two endpoint values
  eq,
  \* ---- SupportsDoH3 called a second time with another ALPN list
  run, saved

epVars == <<Hostname, Path, Bootstrap, ALPN, DoH3Supported, FastestIP, once, transport>>
goVars == <<pc, via, laddrs, ltr, built, dispatched, calls, sets>>
prVars == <<endpoint, bootstrapIPs, alpnList, ppc, idx, lastErr, err, deadline,
            dials, transports, requests, result>>
xVars == <<ex, eq, run, saved>>
vars == <<epVars, goVars, ret, prVars, xVars>>

----------------------------------------------------------------------------
(* Bounds of the model.                                                    *)

\* number of goroutines that share the endpoint
NCallers == 2
\* total number of RoundTrip/Exchange calls started in one behaviour
MaxCalls == 2
\* number of field writes by the endpoint's owner in one behaviour
MaxSets == 1
\* longest Bootstrap list given to endpointAddrs
MaxBoot == 3
\* longest bootstrapIPs list given to SupportsDoH3
MaxProbe == 3
\* length of the buffer the caller gives to Exchange
BufLen == 2

----------------------------------------------------------------------------
(* Strings.                                                                *)

\* strings.Contains(s, c) for a one-character c
Contains(s, c) == \E k \in 1..Len(s) : s[k] = c

\* strings.LastIndex(s, c), 1-based, 0 when absent
LastIndex(s, c) ==
  IF Contains(s, c) THEN CHOOSE k \in 1..Len(s) : s[k] = c /\ \A j \in (k+1)..Len(s) : s[j] # c
  ELSE 0

\* strings.Index(s, c), 1-based, 0 when absent
Index(s, c) ==
  IF Contains(s, c) THEN CHOOSE k \in 1..Len(s) : s[k] = c /\ \A j \in 1..(k-1) : s[j] # c
  ELSE 0

\* the literal "443"
Port443 == <<"4", "4", "3">>

\* net.JoinHostPort: a host holding a colon (or a zone) is bracketed
JoinHostPort(host, port) ==
  IF Contains(host, ":") \/ Contains(host, "%")
  THEN <<"[">> \o host \o <<"]", ":">> \o port
  ELSE host \o <<":">> \o port

\* net.SplitHostPort(s) succeeds with a non-empty port: s is "host:port" or
\* "[host]:port".  The value is the port, or <<>> when s carries none.
PortOf(s) ==
  LET i == LastIndex(s, ":") IN
  IF i = 0 THEN <<>>
  ELSE IF s[1] = "["
       THEN LET end == Index(s, "]") IN
            IF end = 0 \/ end + 1 # i THEN <<>>
            ELSE SubSeq(s, i + 1, Len(s))
       ELSE IF Contains(SubSeq(s, 1, i - 1), ":") THEN <<>>
            ELSE SubSeq(s, i + 1, Len(s))

HasPort(s) == PortOf(s) # <<>>

\* unicode.ToLower on the letters the model uses
ToLower(c) ==
  CASE c = "D" -> "d" [] c = "N" -> "n" [] c = "S" -> "s" [] c = "E" -> "e"
    [] c = "X" -> "x" [] c = "T" -> "t" [] c = "I" -> "i" [] c = "O" -> "o"
    [] OTHER -> c

\* strings.EqualFold
EqualFold(s, t) ==
  /\ Len(s) = Len(t)
  /\ \A k \in 1..Len(s) : ToLower(s[k]) = ToLower(t[k])

\* strings.Join(list, sep)
RECURSIVE Join(_, _)
Join(list, sep) ==
  IF list = <<>> THEN <<>>
  ELSE IF Len(list) = 1 THEN list[1]
  ELSE list[1] \o sep \o Join(Tail(list), sep)

----------------------------------------------------------------------------
(* Literals.                                                               *)

\* "dns.nextdns.io"
HostNextDNS == <<"d","n","s",".","n","e","x","t","d","n","s",".","i","o">>
\* "DNS.NextDNS.io", the same name in another case
HostNextDNSUpper == <<"D","N","S",".","N","e","x","t","D","N","S",".","i","o">>
\* "doh3.dns.nextdns.io"
HostDoH3 == <<"d","o","h","3",".">> \o HostNextDNS
\* "dns.example"
HostOther == <<"d","n","s",".","e","x","a","m","p","l","e">>

\* "1.1.1.1"
IP4a == <<"1",".","1",".","1",".","1">>
\* "9.9.9.9"
IP4b == <<"9",".","9",".","9",".","9">>
\* "1.1.1.1:443"
IP4aPort == IP4a \o <<":">> \o Port443
\* "9.9.9.9:53"
IP4bPort == IP4b \o <<":", "5", "3">>
\* "::1", an IPv6 literal without a port
IP6a == <<":", ":", "1">>
\* "[::1]:443", the same IPv6 literal with a port
IP6aPort == <<"[">> \o IP6a \o <<"]", ":">> \o Port443

\* all sequences over S of length at most n
SeqsUpTo(S, n) == UNION {[1..k -> S] : k \in 0..n}

----------------------------------------------------------------------------
(* endpointAddrs.                                                          *)

\* lines 126-128: an address without a colon gets ":443"
AddPort(ip) == IF ~Contains(ip, ":") THEN JoinHostPort(ip, Port443) ELSE ip

\* lines 124-130: the first loop
RECURSIVE NormalizeAll(_)
NormalizeAll(list) ==
  IF list = <<>> THEN <<>>
  ELSE <<AddPort(Head(list))>> \o NormalizeAll(Tail(list))

\* lines 136-141: the second loop, dropping every element equal to fastest
RECURSIVE Filter(_, _)
Filter(list, fastest) ==
  IF list = <<>> THEN <<>>
  ELSE IF Head(list) # fastest
       THEN <<Head(list)>> \o Filter(Tail(list), fastest)
       ELSE Filter(Tail(list), fastest)

\* endpointAddrs(e) with e.Bootstrap = boot and e.FastestIP = fast
endpointAddrs(boot, fast) ==
  LET addrs == NormalizeAll(boot) IN
  IF fast # <<>>
  THEN LET fastest == AddPort(fast) IN <<fastest>> \o Filter(addrs, fastest)
  ELSE addrs

----------------------------------------------------------------------------
(* DOHEndpoint: the value, Equal and String.                               *)

\* the endpoint as a value: the exported fields of the struct
E ==
  [Hostname |-> Hostname, Path |-> Path, Bootstrap |-> Bootstrap, ALPN |-> ALPN,
   DoH3Supported |-> DoH3Supported, FastestIP |-> FastestIP]

\* mutant of Equal: the bootstrap lists are compared as sets
EqualUnordered(e, e2) ==
  /\ e.Hostname = e2.Hostname
  /\ e.Path = e2.Path
  /\ Len(e.Bootstrap) = Len(e2.Bootstrap)
  /\ {e.Bootstrap[k] : k \in 1..Len(e.Bootstrap)} = {e2.Bootstrap[k] : k \in 1..Len(e2.Bootstrap)}

\* (e *DOHEndpoint) Equal(e2)
Equal(e, e2) ==
  IF e.Hostname # e2.Hostname \/ e.Path # e2.Path \/ Len(e.Bootstrap) # Len(e2.Bootstrap)
  THEN FALSE
  ELSE \A k \in 1..Len(e.Bootstrap) : e.Bootstrap[k] = e2.Bootstrap[k]

\* "https://"
Scheme == <<"h","t","t","p","s",":","/","/">>

\* (e *DOHEndpoint) String()
String(e) ==
  IF Len(e.Bootstrap) # 0
  THEN Scheme \o e.Hostname \o e.Path \o <<"#">> \o Join(e.Bootstrap, <<",">>)
  ELSE Scheme \o e.Hostname \o e.Path

----------------------------------------------------------------------------
(* RoundTrip and Exchange, called by concurrent goroutines.                *)

Callers == 1..NCallers

\* the nil http.RoundTripper
Unset == [variant |-> "nil"]

\* newTransportH2(e, addrs): the handle is bound to the addresses and to the
\* endpoint's hostname; id tells one construction from another
newTransportH2(host, addrs, id) ==
  [variant |-> "h2", hostname |-> host, addrs |-> addrs, id |-> id]

\* newTransportH3(e, addrs)
newTransportH3(host, addrs, id) ==
  [variant |-> "h3", hostname |-> host, addrs |-> addrs, id |-> id]

\* sync.Once: done is the atomic flag, m the mutex (0 free, else its holder)
OnceInit == [done |-> 0, m |-> 0]

\* a caller starts RoundTrip, directly or through Exchange (lines 80-83)
Call(g) ==
  /\ pc[g] = "idle"
  /\ calls < MaxCalls
  /\ \E v \in {"RoundTrip", "Exchange"} :
       /\ via' = [via EXCEPT ![g] = v]
       /\ pc' = [pc EXCEPT ![g] = IF v = "Exchange" THEN "exchange" ELSE "onceDo"]
  /\ calls' = calls + 1
  /\ UNCHANGED <<epVars, laddrs, ltr, built, dispatched, sets>>

\* Exchange builds its request and calls e.RoundTrip(req) (lines 80-83)
ExchangeCall(g) ==
  /\ pc[g] = "exchange"
  /\ pc' = [pc EXCEPT ![g] = "onceDo"]
  /\ UNCHANGED <<epVars, via, laddrs, ltr, built, dispatched, calls, sets>>

\* Once.Do, fast path: the atomic load of done (line 104)
OnceDo(g) ==
  /\ pc[g] = "onceDo"
  /\ pc' = [pc EXCEPT ![g] = IF once.done = 0 THEN "doSlow" ELSE "dispatch"]
  /\ UNCHANGED <<epVars, via, laddrs, ltr, built, dispatched, calls, sets>>

\* mutant of OnceLock: the body is entered without waiting for the mutex
OnceLockNoMutex(g) ==
  /\ pc[g] = "doSlow"
  /\ once' = [once EXCEPT !.m = g]
  /\ pc' = [pc EXCEPT ![g] = "locked"]
  /\ UNCHANGED <<Hostname, Path, Bootstrap, ALPN, DoH3Supported, FastestIP, transport,
                 via, laddrs, ltr, built, dispatched, calls, sets>>

\* Once.doSlow: o.m.Lock() blocks until the mutex is free (line 104)
OnceLock(g) ==
  /\ pc[g] = "doSlow"
  /\ once.m = 0
  /\ once' = [once EXCEPT !.m = g]
  /\ pc' = [pc EXCEPT ![g] = "locked"]
  /\ UNCHANGED <<Hostname, Path, Bootstrap, ALPN, DoH3Supported, FastestIP, transport,
                 via, laddrs, ltr, built, dispatched, calls, sets>>

\* Once.doSlow: under the mutex, f runs only if done is still 0 (line 104)
OnceRecheck(g) ==
  /\ pc[g] = "locked"
  /\ pc' = [pc EXCEPT ![g] = IF once.done = 0 THEN "f" ELSE "unlock"]
  /\ UNCHANGED <<epVars, via, laddrs, ltr, built, dispatched, calls, sets>>

\* line 105: if e.transport == nil
FCheckNil(g) ==
  /\ pc[g] = "f"
  /\ pc' = [pc EXCEPT ![g] = IF transport = Unset THEN "f_addrs" ELSE "f_ret"]
  /\ UNCHANGED <<epVars, via, laddrs, ltr, built, dispatched, calls, sets>>

\* line 106: addrs := endpointAddrs(e)
FAddrs(g) ==
  /\ pc[g] = "f_addrs"
  /\ laddrs' = [laddrs EXCEPT ![g] = endpointAddrs(Bootstrap, FastestIP)]
  /\ pc' = [pc EXCEPT ![g] = "f_flag"]
  /\ UNCHANGED <<epVars, via, ltr, built, dispatched, calls, sets>>

\* mutant of FFlag: the hostname is rewritten before the flag is tested
FFlagRewriteFirst(g) ==
  /\ pc[g] = "f_flag"
  /\ Hostname' = IF EqualFold(Hostname, HostNextDNS) THEN HostDoH3 ELSE Hostname
  /\ pc' = [pc EXCEPT ![g] = IF DoH3Supported THEN "f_h3" ELSE "f_h2"]
  /\ UNCHANGED <<Path, Bootstrap, ALPN, DoH3Supported, FastestIP, once, transport,
                 via, laddrs, ltr, built, dispatched, calls, sets>>

\* lines 107-111: the capability flag is read; on the HTTP/3 path the hostname
\* dns.nextdns.io is rewritten in the endpoint itself
FFlag(g) ==
  /\ pc[g] = "f_flag"
  /\ IF DoH3Supported
     THEN /\ Hostname' = IF EqualFold(Hostname, HostNextDNS) THEN HostDoH3 ELSE Hostname
          /\ pc' = [pc EXCEPT ![g] = "f_h3"]
     ELSE /\ Hostname' = Hostname
          /\ pc' = [pc EXCEPT ![g] = "f_h2"]
  /\ UNCHANGED <<Path, Bootstrap, ALPN, DoH3Supported, FastestIP, once, transport,
                 via, laddrs, ltr, built, dispatched, calls, sets>>

\* lines 112 and 114: the constructor is called
FConstruct(g) ==
  /\ pc[g] \in {"f_h3", "f_h2"}
  /\ built' = built + 1
  /\ ltr' = [ltr EXCEPT ![g] =
               IF pc[g] = "f_h3" THEN newTransportH3(Hostname, laddrs[g], built + 1)
               ELSE newTransportH2(Hostname, laddrs[g], built + 1)]
  /\ pc' = [pc EXCEPT ![g] = "f_store"]
  /\ UNCHANGED <<epVars, via, laddrs, dispatched, calls, sets>>

\* lines 112 and 114: its result is stored in e.transport
FStore(g) ==
  /\ pc[g] = "f_store"
  /\ transport' = ltr[g]
  /\ pc' = [pc EXCEPT ![g] = "f_ret"]
  /\ UNCHANGED <<Hostname, Path, Bootstrap, ALPN, DoH3Supported, FastestIP, once,
                 via, laddrs, ltr, built, dispatched, calls, sets>>

\* Once.doSlow: the deferred o.done.Store(1) (line 117)
OnceStoreDone(g) ==
  /\ pc[g] = "f_ret"
  /\ once' = [once EXCEPT !.done = 1]
  /\ pc' = [pc EXCEPT ![g] = "unlock"]
  /\ UNCHANGED <<Hostname, Path, Bootstrap, ALPN, DoH3Supported, FastestIP, transport,
                 via, laddrs, ltr, built, dispatched, calls, sets>>

\* Once.doSlow: the deferred o.m.Unlock() (line 117)
OnceUnlock(g) ==
  /\ pc[g] = "unlock"
  /\ once' = [once EXCEPT !.m = 0]
  /\ pc' = [pc EXCEPT ![g] = "dispatch"]
  /\ UNCHANGED <<Hostname, Path, Bootstrap, ALPN, DoH3Supported, FastestIP, transport,
                 via, laddrs, ltr, built, dispatched, calls, sets>>

\* line 118: return e.transport.RoundTrip(req); the handle read is recorded,
\* with the value the capability flag has at that moment and the address list
\* the Bootstrap and FastestIP fields would give at that moment
Dispatch(g) ==
  /\ pc[g] = "dispatch"
  /\ dispatched' = Append(dispatched, [g |-> g, via |-> via[g], handle |-> transport,
                                      flag |-> DoH3Supported,
                                      want |-> endpointAddrs(Bootstrap, FastestIP)])
  /\ pc' = [pc EXCEPT ![g] = "idle"]
  /\ UNCHANGED <<epVars, via, laddrs, ltr, built, calls, sets>>

\* the steps of RoundTrip (and of Exchange around it) taken by goroutine g
RoundTripStep(g) ==
  \/ ExchangeCall(g)
  \/ OnceDo(g)
  \/ OnceLock(g)
  \/ OnceRecheck(g)
  \/ FCheckNil(g)
  \/ FAddrs(g)
  \/ FFlag(g)
  \/ FConstruct(g)
  \/ FStore(g)
  \/ OnceStoreDone(g)
  \/ OnceUnlock(g)
  \/ Dispatch(g)

----------------------------------------------------------------------------
(* The owner of the endpoint writes its exported fields.  It does so       *)
(* before traffic or between calls, not while the transport is being built.*)

OwnerMayWrite == sets < MaxSets /\ once.m = 0

\* mutant of SetDoH3Supported: writing the flag drops the cached transport
SetDoH3SupportedReset ==
  /\ OwnerMayWrite
  /\ DoH3Supported' = ~DoH3Supported
  /\ transport' = Unset
  /\ once' = OnceInit
  /\ sets' = sets + 1
  /\ UNCHANGED <<Hostname, Path, Bootstrap, ALPN, FastestIP,
                 pc, via, laddrs, ltr, built, dispatched, calls>>

\* e.DoH3Supported = b (field at line 43)
SetDoH3Supported ==
  /\ OwnerMayWrite
  /\ DoH3Supported' = ~DoH3Supported
  /\ sets' = sets + 1
  /\ UNCHANGED <<Hostname, Path, Bootstrap, ALPN, FastestIP, once, transport,
                 pc, via, laddrs, ltr, built, dispatched, calls>>

\* mutant of SetFastestIP: writing the hint drops the cached transport
SetFastestIPReset ==
  /\ OwnerMayWrite
  /\ \E ip \in {<<>>, IP4a} :
       /\ ip # FastestIP
       /\ FastestIP' = ip
  /\ transport' = Unset
  /\ once' = OnceInit
  /\ sets' = sets + 1
  /\ UNCHANGED <<Hostname, Path, Bootstrap, ALPN, DoH3Supported,
                 pc, via, laddrs, ltr, built, dispatched, calls>>

\* e.FastestIP = ip (field at line 46)
SetFastestIP ==
  /\ OwnerMayWrite
  /\ \E ip \in {<<>>, IP4a} :
       /\ ip # FastestIP
       /\ FastestIP' = ip
  /\ sets' = sets + 1
  /\ UNCHANGED <<Hostname, Path, Bootstrap, ALPN, DoH3Supported, once, transport,
                 pc, via, laddrs, ltr, built, dispatched, calls>>

\* e.Bootstrap = ips (field at line 36)
SetBootstrap ==
  /\ OwnerMayWrite
  /\ \E ips \in {<<IP4a, IP6a>>, <<IP4b, IP4a>>} :
       /\ ips # Bootstrap
       /\ Bootstrap' = ips
  /\ sets' = sets + 1
  /\ UNCHANGED <<Hostname, Path, ALPN, DoH3Supported, FastestIP, once, transport,
                 pc, via, laddrs, ltr, built, dispatched, calls>>

----------------------------------------------------------------------------
(* SupportsDoH3.                                                           *)

\* context.DeadlineExceeded, any other error of an attempt, and no error
ErrDeadline == "context deadline exceeded"
ErrNet == "network error"
ErrNil == "nil"


\* mutant of AEmpty: the empty list is not checked for
AEmptyNever(ips) == FALSE

\* line 42: probeDoH3 has no address to try
AEmpty(ips) == Len(ips) = 0

\* line 67: probeDoH3Request has no address to try
BEmpty(ips) == Len(ips) = 0

\* mutant of DialSucceeded: the test of err is inverted
DialSucceededInverted(o) == o # "ok"

\* line 55: the handshake returned no error
DialSucceeded(o) == o = "ok"

\* mutant of ResponseOK: no response is taken for a success
ResponseOKNever(o) == FALSE

\* line 76: the round trip returned no error and status 200
ResponseOK(o) == o = "200"

\* lines 80-82: a response that came back is closed
ResponseClosed(o) == IF o \in {"200", "404", "errResp"} THEN 1 ELSE 0

\* what quic.DialAddrEarly(ctx, ...) can return: success or a failure while
\* the deadline of ctx is live, the context's error once it has expired
DialOutcomes == IF deadline = "live" THEN {"ok", "fail"} ELSE {"abort"}

\* what tr.RoundTrip(req) can return for a request bound to ctx: a 200, another
\* status, an error without or with a response; the context's error once the
\* deadline has expired
RoundTripOutcomes ==
  IF deadline = "live" THEN {"200", "404", "err", "errResp"} ELSE {"abort"}

\* the error value of a failed attempt
ErrOf(o) == IF o = "abort" THEN ErrDeadline ELSE ErrNet

\* mutant of SupportsDoH3Start: without h3 in the ALPN list nothing is probed
SupportsDoH3StartIfH3 ==
  /\ ppc = "start"
  /\ deadline' = "live"
  /\ IF \E k \in 1..Len(alpnList) : alpnList[k] = "h3"
     THEN ppc' = "A_entry" /\ result' = result
     ELSE ppc' = "done" /\ result' = "false"
  /\ UNCHANGED <<endpoint, bootstrapIPs, alpnList, idx, lastErr, err,
                 dials, transports, requests>>

\* lines 17-19: the context with its 2 s deadline is made, probeDoH3 is called
SupportsDoH3Start ==
  /\ ppc = "start"
  /\ ppc' = "A_entry"
  /\ deadline' = "live"
  /\ UNCHANGED <<endpoint, bootstrapIPs, alpnList, idx, lastErr, err,
                 dials, transports, requests, result>>

\* lines 42-46: probeDoH3 returns at once on an empty list
ProbeAEntry ==
  /\ ppc = "A_entry"
  /\ IF AEmpty(bootstrapIPs)
     THEN /\ err' = ErrDeadline
          /\ ppc' = "A_ret"
     ELSE /\ err' = err
          /\ ppc' = "A_loop"
  /\ idx' = 1
  /\ lastErr' = ErrNil
  /\ UNCHANGED <<endpoint, bootstrapIPs, alpnList, deadline,
                 dials, transports, requests, result>>

\* lines 47-54: the next address is dialled with SNI = endpoint and ALPN h3
ADialStart ==
  /\ ppc = "A_loop"
  /\ idx <= Len(bootstrapIPs)
  /\ dials' = Append(dials, [i |-> idx,
                             addr |-> JoinHostPort(bootstrapIPs[idx], Port443),
                             ServerName |-> endpoint,
                             NextProtos |-> <<"h3">>,
                             res |-> "pending"])
  /\ ppc' = "A_dial"
  /\ UNCHANGED <<endpoint, bootstrapIPs, alpnList, idx, lastErr, err, deadline,
                 transports, requests, result>>

\* lines 54-61: the handshake returns; success ends probeDoH3 with nil
ADialEnd ==
  /\ ppc = "A_dial"
  /\ \E o \in DialOutcomes :
       /\ dials' = [dials EXCEPT ![Len(dials)].res = o]
       /\ IF DialSucceeded(o)
          THEN /\ err' = ErrNil
               /\ ppc' = "A_ret"
               /\ UNCHANGED <<idx, lastErr>>
          ELSE /\ lastErr' = ErrOf(o)
               /\ idx' = idx + 1
               /\ ppc' = "A_loop"
               /\ err' = err
  /\ UNCHANGED <<endpoint, bootstrapIPs, alpnList, deadline,
                 transports, requests, result>>

\* mutant of ALoopEnd: after a first pass in which every address failed the
\* list is walked a second time
ALoopEndRetryOnce ==
  /\ ppc = "A_loop"
  /\ idx > Len(bootstrapIPs)
  /\ IF Len(dials) <= Len(bootstrapIPs)
     THEN idx' = 1 /\ ppc' = ppc /\ err' = err
     ELSE idx' = idx /\ ppc' = "A_ret" /\ err' = lastErr
  /\ UNCHANGED <<endpoint, bootstrapIPs, alpnList, lastErr, deadline,
                 dials, transports, requests, result>>

\* line 62: every address failed, probeDoH3 returns lastErr
ALoopEnd ==
  /\ ppc = "A_loop"
  /\ idx > Len(bootstrapIPs)
  /\ err' = lastErr
  /\ ppc' = "A_ret"
  /\ UNCHANGED <<endpoint, bootstrapIPs, alpnList, idx, lastErr, deadline,
                 dials, transports, requests, result>>

\* lines 19-23: SupportsDoH3 returns true, or goes on to probeDoH3Request
AReturn ==
  /\ ppc = "A_ret"
  /\ IF err = ErrNil
     THEN /\ result' = "true"
          /\ ppc' = "done"
     ELSE /\ result' = result
          /\ ppc' = "B_entry"
  /\ UNCHANGED <<endpoint, bootstrapIPs, alpnList, idx, lastErr, err, deadline,
                 dials, transports, requests>>

\* lines 67-69: probeDoH3Request returns at once on an empty list
ProbeBEntry ==
  /\ ppc = "B_entry"
  /\ IF BEmpty(bootstrapIPs)
     THEN /\ err' = ErrDeadline
          /\ ppc' = "B_ret"
     ELSE /\ err' = err
          /\ ppc' = "B_loop"
  /\ idx' = 1
  /\ UNCHANGED <<endpoint, bootstrapIPs, alpnList, lastErr, deadline,
                 dials, transports, requests, result>>

\* lines 70-75: an HTTP/3 transport for the one address is built and the POST
\* is sent through it
BRequestStart ==
  /\ ppc = "B_loop"
  /\ idx <= Len(bootstrapIPs)
  /\ transports' = Append(transports,
                          newTransportH3(endpoint, <<bootstrapIPs[idx]>>, Len(transports) + 1))
  /\ requests' = Append(requests, [i |-> idx, res |-> "pending", closed |-> 0])
  /\ ppc' = "B_rt"
  /\ UNCHANGED <<endpoint, bootstrapIPs, alpnList, idx, lastErr, err, deadline,
                 dials, result>>

\* lines 75-83: the round trip returns; a 200 ends probeDoH3Request with nil,
\* and a response that came back is closed either way
BRoundTripEnd ==
  /\ ppc = "B_rt"
  /\ \E o \in RoundTripOutcomes :
       /\ requests' = [requests EXCEPT ![Len(requests)].res = o,
                                       ![Len(requests)].closed = ResponseClosed(o)]
       /\ IF ResponseOK(o)
          THEN /\ err' = ErrNil
               /\ ppc' = "B_ret"
               /\ idx' = idx
          ELSE /\ idx' = idx + 1
               /\ ppc' = "B_loop"
               /\ err' = err
  /\ UNCHANGED <<endpoint, bootstrapIPs, alpnList, lastErr, deadline,
                 dials, transports, result>>

\* mutant of BLoopEnd: the loop falls through to a nil error
BLoopEndNil ==
  /\ ppc = "B_loop"
  /\ idx > Len(bootstrapIPs)
  /\ err' = ErrNil
  /\ ppc' = "B_ret"
  /\ UNCHANGED <<endpoint, bootstrapIPs, alpnList, idx, lastErr, deadline,
                 dials, transports, requests, result>>

\* line 84: no address answered 200
BLoopEnd ==
  /\ ppc = "B_loop"
  /\ idx > Len(bootstrapIPs)
  /\ err' = ErrDeadline
  /\ ppc' = "B_ret"
  /\ UNCHANGED <<endpoint, bootstrapIPs, alpnList, idx, lastErr, deadline,
                 dials, transports, requests, result>>

\* lines 23-26: SupportsDoH3 returns true or false (the deferred cancel runs)
BReturn ==
  /\ ppc = "B_ret"
  /\ result' = IF err = ErrNil THEN "true" ELSE "false"
  /\ ppc' = "done"
  /\ UNCHANGED <<endpoint, bootstrapIPs, alpnList, idx, lastErr, err, deadline,
                 dials, transports, requests>>

\* line 17: the 2 s of context.WithTimeout run out while the call is under way
Expire ==
  /\ ppc \notin {"start", "done"}
  /\ deadline = "live"
  /\ deadline' = "expired"
  /\ UNCHANGED <<endpoint, bootstrapIPs, alpnList, ppc, idx, lastErr, err,
                 dials, transports, requests, result>>

----------------------------------------------------------------------------
(* Specifications.                                                         *)

\* the endpoint before its first use
EpInit(hosts, boots, fasts) ==
  /\ Hostname \in hosts
  /\ Path = <<"/">>
  /\ Bootstrap \in boots
  /\ ALPN = <<"h2">>
  /\ DoH3Supported \in BOOLEAN
  /\ FastestIP \in fasts
  /\ once = OnceInit
  /\ transport = Unset

\* no goroutine has called yet
GoInit ==
  /\ pc = [g \in Callers |-> "idle"]
  /\ via = [g \in Callers |-> "none"]
  /\ laddrs = [g \in Callers |-> <<>>]
  /\ ltr = [g \in Callers |-> Unset]
  /\ built = 0
  /\ dispatched = <<>>
  /\ calls = 0
  /\ sets = 0

\* SupportsDoH3 is about to be called with the given arguments
PrInit(ipLists, alpns) ==
  /\ endpoint = HostNextDNS
  /\ bootstrapIPs \in ipLists
  /\ alpnList \in alpns
  /\ ppc = "start"
  /\ idx = 0
  /\ lastErr = ErrNil
  /\ err = ErrNil
  /\ deadline = "none"
  /\ dials = <<>>
  /\ transports = <<>>
  /\ requests = <<>>
  /\ result = "none"

\* Exchange is not being called
ExIdle == [pc |-> "idle"]

\* Equal has not been called
EqIdle == [called |-> FALSE]

\* no earlier call of SupportsDoH3 has been recorded
NoSaved ==
  [alpnList |-> <<>>, dials |-> <<>>, transports |-> <<>>, requests |-> <<>>,
   result |-> "none"]

\* nothing but the first call of SupportsDoH3 is under way
XInit ==
  /\ ex = ExIdle
  /\ eq = EqIdle
  /\ run = 1
  /\ saved = NoSaved

\* endpointAddrs has not been called
NotCalled == [called |-> FALSE, addrs |-> <<>>]

\* ---- Spec: goroutines share one endpoint
Init ==
  /\ EpInit({HostNextDNS, HostNextDNSUpper, HostOther}, {<<IP4a, IP6a>>}, {<<>>, IP4a})
  /\ GoInit
  /\ ret = NotCalled
  /\ PrInit({<<>>}, {<<>>})
  /\ XInit

Next ==
  \/ (\E g \in Callers : Call(g)) /\ UNCHANGED <<ret, prVars, xVars>>
  \/ (\E g \in Callers : ExchangeCall(g)) /\ UNCHANGED <<ret, prVars, xVars>>
  \/ (\E g \in Callers : OnceDo(g)) /\ UNCHANGED <<ret, prVars, xVars>>
  \/ (\E g \in Callers : OnceLock(g)) /\ UNCHANGED <<ret, prVars, xVars>>
  \/ (\E g \in Callers : OnceRecheck(g)) /\ UNCHANGED <<ret, prVars, xVars>>
  \/ (\E g \in Callers : FCheckNil(g)) /\ UNCHANGED <<ret, prVars, xVars>>
  \/ (\E g \in Callers : FAddrs(g)) /\ UNCHANGED <<ret, prVars, xVars>>
  \/ (\E g \in Callers : FFlag(g)) /\ UNCHANGED <<ret, prVars, xVars>>
  \/ (\E g \in Callers : FConstruct(g)) /\ UNCHANGED <<ret, prVars, xVars>>
  \/ (\E g \in Callers : FStore(g)) /\ UNCHANGED <<ret, prVars, xVars>>
  \/ (\E g \in Callers : OnceStoreDone(g)) /\ UNCHANGED <<ret, prVars, xVars>>
  \/ (\E g \in Callers : OnceUnlock(g)) /\ UNCHANGED <<ret, prVars, xVars>>
  \/ (\E g \in Callers : Dispatch(g)) /\ UNCHANGED <<ret, prVars, xVars>>
  \/ (SetDoH3Supported /\ UNCHANGED <<ret, prVars, xVars>>)
  \/ (SetFastestIP /\ UNCHANGED <<ret, prVars, xVars>>)
  \/ (SetBootstrap /\ UNCHANGED <<ret, prVars, xVars>>)

Spec == Init /\ [][Next]_vars

\* ---- SpecAddrs: endpointAddrs as a function of Bootstrap and FastestIP
AddrPool == {IP4a, IP4aPort, IP4b, IP6a, IP6aPort}

CallEndpointAddrs ==
  /\ ~ret.called
  /\ ret' = [called |-> TRUE, addrs |-> endpointAddrs(Bootstrap, FastestIP)]
  /\ UNCHANGED <<epVars, goVars, prVars, xVars>>

InitAddrs ==
  /\ EpInit({HostOther}, SeqsUpTo(AddrPool, MaxBoot), AddrPool \cup {<<>>})
  /\ GoInit
  /\ ret = NotCalled
  /\ PrInit({<<>>}, {<<>>})
  /\ XInit

NextAddrs == CallEndpointAddrs

SpecAddrs == InitAddrs /\ [][NextAddrs]_vars

\* ---- SpecProbe: one call of SupportsDoH3
ProbePool == {IP4a, IP4aPort, IP6a}

AlpnLists == {<<>>, <<"h2">>, <<"h3", "h2">>}

InitProbe ==
  /\ EpInit({HostOther}, {<<>>}, {<<>>})
  /\ GoInit
  /\ ret = NotCalled
  /\ PrInit(SeqsUpTo(ProbePool, MaxProbe), AlpnLists)
  /\ XInit

NextProbe ==
  \/ (SupportsDoH3Start /\ UNCHANGED <<epVars, goVars, ret, xVars>>)
  \/ (ProbeAEntry /\ UNCHANGED <<epVars, goVars, ret, xVars>>)
  \/ (ADialStart /\ UNCHANGED <<epVars, goVars, ret, xVars>>)
  \/ (ADialEnd /\ UNCHANGED <<epVars, goVars, ret, xVars>>)
  \/ (ALoopEnd /\ UNCHANGED <<epVars, goVars, ret, xVars>>)
  \/ (AReturn /\ UNCHANGED <<epVars, goVars, ret, xVars>>)
  \/ (ProbeBEntry /\ UNCHANGED <<epVars, goVars, ret, xVars>>)
  \/ (BRequestStart /\ UNCHANGED <<epVars, goVars, ret, xVars>>)
  \/ (BRoundTripEnd /\ UNCHANGED <<epVars, goVars, ret, xVars>>)
  \/ (BLoopEnd /\ UNCHANGED <<epVars, goVars, ret, xVars>>)
  \/ (BReturn /\ UNCHANGED <<epVars, goVars, ret, xVars>>)
  \/ (Expire /\ UNCHANGED <<epVars, goVars, ret, xVars>>)

SpecProbe == InitProbe /\ [][NextProbe]_vars

\* the goroutine that called SupportsDoH3 keeps running, and every handshake
\* and every request returns (at the latest when the context expires)
SpecProbeFair == InitProbe /\ [][NextProbe]_vars /\ WF_vars(NextProbe)

----------------------------------------------------------------------------
(* Exchange: what follows e.RoundTrip(req), for one goroutine (SpecExchange).*)

\* the goroutine that calls Exchange
XG == 1

\* the nil error
NoErr == [kind |-> "nil"]

\* what the transport's RoundTrip can hand back to line 83: an error (a plain
\* one, or an x509.UnknownAuthorityError) or none, a response or none, and the
\* status of the response; without an error there is a response
TransportOutcomes ==
  {[err |-> "nil", resp |-> TRUE, status |-> c] : c \in {200, 204, 404}}
    \cup {[err |-> e, resp |-> FALSE, status |-> 0] : e \in {"net", "uae"}}
    \cup {[err |-> e, resp |-> TRUE, status |-> 200] : e \in {"net", "uae"}}

\* what res.Body.Read(buf) can return: a count within the buffer and nil,
\* io.EOF or another error
ReadOutcomes == {[n |-> k, rerr |-> r] : k \in 0..BufLen, r \in {"nil", "EOF", "read"}}

\* mutant of StatusOK: every 2xx status passes
StatusOKAny2xx(code) == code \in 200..299

\* line 93: res.StatusCode == http.StatusOK
StatusOK(code) == code = 200

\* mutant of ReadFailed: a read error is dropped
ReadFailedNever(rerr) == FALSE

\* line 97: err != nil && !errors.Is(err, io.EOF)
ReadFailed(rerr) == rerr # "nil" /\ rerr # "EOF"

\* lines 79-83: Exchange is called with a buffer, builds its request and
\* calls e.RoundTrip(req)
XCall ==
  /\ ex.pc \in {"idle", "returned"}
  /\ Call(XG)
  /\ via'[XG] = "Exchange"
  /\ ex' = [pc |-> "roundtrip",
            buf0 |-> [k \in 1..BufLen |-> "old"],
            buf |-> [k \in 1..BufLen |-> "old"],
            d0 |-> Len(dispatched),
            o |-> [err |-> "none", resp |-> FALSE, status |-> 0],
            rerr |-> "none", n |-> 0, err |-> NoErr, closed |-> 0]

\* lines 103-117: RoundTrip resolves the transport
XResolve ==
  /\ ex.pc = "roundtrip"
  /\ \/ ExchangeCall(XG)
     \/ OnceDo(XG)
     \/ OnceLock(XG)
     \/ OnceRecheck(XG)
     \/ FCheckNil(XG)
     \/ FAddrs(XG)
     \/ FFlag(XG)
     \/ FConstruct(XG)
     \/ FStore(XG)
     \/ OnceStoreDone(XG)
     \/ OnceUnlock(XG)
  /\ UNCHANGED ex

\* line 118: the request is dispatched through the handle
XDispatch ==
  /\ ex.pc = "roundtrip"
  /\ Dispatch(XG)
  /\ ex' = [ex EXCEPT !.pc = "inflight"]

\* lines 83 and 118: the transport's RoundTrip returns
XTransportReturn ==
  /\ ex.pc = "inflight"
  /\ \E o \in TransportOutcomes : ex' = [ex EXCEPT !.o = o, !.pc = "line84"]
  /\ UNCHANGED <<epVars, goVars>>

\* lines 84-92: an error is returned wrapped, with the certificate's subject
\* and issuer for an UnknownAuthorityError; otherwise the close is deferred
XCheckErr ==
  /\ ex.pc = "line84"
  /\ IF ex.o.err # "nil"
     THEN ex' = [ex EXCEPT !.n = 0,
                           !.err = [kind |-> "roundtrip", cause |-> ex.o.err,
                                    cert |-> (ex.o.err = "uae")],
                           !.pc = "returned"]
     ELSE ex' = [ex EXCEPT !.pc = "line93"]
  /\ UNCHANGED <<epVars, goVars>>

\* lines 93-95: another status than 200 is returned as an error with its
\* code; the deferred close runs
XCheckStatus ==
  /\ ex.pc = "line93"
  /\ IF ~StatusOK(ex.o.status)
     THEN ex' = [ex EXCEPT !.n = 0,
                           !.err = [kind |-> "status", code |-> ex.o.status],
                           !.closed = @ + 1,
                           !.pc = "returned"]
     ELSE ex' = [ex EXCEPT !.pc = "line96"]
  /\ UNCHANGED <<epVars, goVars>>

\* line 96: n, err = res.Body.Read(buf) writes the first n bytes of buf
XRead ==
  /\ ex.pc = "line96"
  /\ \E r \in ReadOutcomes :
       ex' = [ex EXCEPT !.n = r.n,
                        !.rerr = r.rerr,
                        !.buf = [k \in 1..BufLen |-> IF k <= r.n THEN "new" ELSE ex.buf[k]],
                        !.pc = "line97"]
  /\ UNCHANGED <<epVars, goVars>>

\* lines 97-100: a read error other than io.EOF is returned wrapped with n,
\* otherwise n and nil; the deferred close runs
XReturn ==
  /\ ex.pc = "line97"
  /\ ex' = [ex EXCEPT !.err = IF ReadFailed(ex.rerr) THEN [kind |-> "read"] ELSE NoErr,
                      !.closed = @ + 1,
                      !.pc = "returned"]
  /\ UNCHANGED <<epVars, goVars>>

InitExchange ==
  /\ EpInit({HostNextDNS, HostOther}, {<<IP4a, IP6a>>}, {<<>>, IP4a})
  /\ GoInit
  /\ ret = NotCalled
  /\ PrInit({<<>>}, {<<>>})
  /\ XInit

NextExchange ==
  \/ (XCall /\ UNCHANGED <<ret, prVars, eq, run, saved>>)
  \/ (XResolve /\ UNCHANGED <<ret, prVars, eq, run, saved>>)
  \/ (XDispatch /\ UNCHANGED <<ret, prVars, eq, run, saved>>)
  \/ (XTransportReturn /\ UNCHANGED <<ret, prVars, eq, run, saved>>)
  \/ (XCheckErr /\ UNCHANGED <<ret, prVars, eq, run, saved>>)
  \/ (XCheckStatus /\ UNCHANGED <<ret, prVars, eq, run, saved>>)
  \/ (XRead /\ UNCHANGED <<ret, prVars, eq, run, saved>>)
  \/ (XReturn /\ UNCHANGED <<ret, prVars, eq, run, saved>>)

SpecExchange == InitExchange /\ [][NextExchange]_vars

----------------------------------------------------------------------------
(* SupportsDoH3 called twice with the same hostname and bootstrap list,    *)
(* another ALPN list, and the same outcome of every attempt (SpecAlpn).    *)

\* the first call has returned; what it did is kept and the second call is
\* set up with another ALPN list
SecondCall ==
  /\ run = 1
  /\ ppc = "done"
  /\ saved' = [alpnList |-> alpnList, dials |-> dials, transports |-> transports,
               requests |-> requests, result |-> result]
  /\ run' = 2
  /\ alpnList' \in AlpnLists \ {alpnList}
  /\ ppc' = "start"
  /\ idx' = 0
  /\ lastErr' = ErrNil
  /\ err' = ErrNil
  /\ deadline' = "none"
  /\ dials' = <<>>
  /\ transports' = <<>>
  /\ requests' = <<>>
  /\ result' = "none"
  /\ UNCHANGED <<endpoint, bootstrapIPs, epVars, goVars, ret, ex, eq>>

\* in the second call the k-th handshake and the k-th request end the way
\* they ended in the first call, as far as the first call made them
SameOutcomes ==
  run = 2 =>
    /\ \A k \in 1..Len(dials') :
         (k <= Len(saved.dials) /\ dials'[k].res # "pending")
           => dials'[k].res = saved.dials[k].res
    /\ \A k \in 1..Len(requests') :
         (k <= Len(saved.requests) /\ requests'[k].res # "pending")
           => requests'[k].res = saved.requests[k].res

InitAlpn ==
  /\ EpInit({HostOther}, {<<>>}, {<<>>})
  /\ GoInit
  /\ ret = NotCalled
  /\ PrInit(SeqsUpTo({IP4a, IP6a}, MaxProbe), AlpnLists)
  /\ XInit

NextAlpn ==
  \/ (SupportsDoH3Start /\ UNCHANGED <<epVars, goVars, ret, xVars>>)
  \/ (ProbeAEntry /\ UNCHANGED <<epVars, goVars, ret, xVars>>)
  \/ (ADialStart /\ UNCHANGED <<epVars, goVars, ret, xVars>>)
  \/ (ADialEnd /\ SameOutcomes /\ UNCHANGED <<epVars, goVars, ret, xVars>>)
  \/ (ALoopEnd /\ UNCHANGED <<epVars, goVars, ret, xVars>>)
  \/ (AReturn /\ UNCHANGED <<epVars, goVars, ret, xVars>>)
  \/ (ProbeBEntry /\ UNCHANGED <<epVars, goVars, ret, xVars>>)
  \/ (BRequestStart /\ UNCHANGED <<epVars, goVars, ret, xVars>>)
  \/ (BRoundTripEnd /\ SameOutcomes /\ UNCHANGED <<epVars, goVars, ret, xVars>>)
  \/ (BLoopEnd /\ UNCHANGED <<epVars, goVars, ret, xVars>>)
  \/ (BReturn /\ UNCHANGED <<epVars, goVars, ret, xVars>>)
  \/ (Expire /\ UNCHANGED <<epVars, goVars, ret, xVars>>)
  \/ SecondCall

SpecAlpn == InitAlpn /\ [][NextAlpn]_vars

----------------------------------------------------------------------------
(* Equal on two endpoint values (SpecEqual).                               *)

\* the fields Equal does not look at, in two settings: a fresh endpoint and
\* a used one
OtherFields ==
  {[ALPN |-> <<"h2">>, DoH3Supported |-> FALSE, FastestIP |-> <<>>, transport |-> Unset],
   [ALPN |-> <<"h3", "h2">>, DoH3Supported |-> TRUE, FastestIP |-> IP4a,
    transport |-> newTransportH3(HostDoH3, <<IP4aPort>>, 1)]}

\* the DOHEndpoint values Equal is called on
EndpointValues ==
  {[Hostname |-> h, Path |-> p, Bootstrap |-> b, ALPN |-> r.ALPN,
    DoH3Supported |-> r.DoH3Supported, FastestIP |-> r.FastestIP, transport |-> r.transport] :
     h \in {HostNextDNS, HostOther}, p \in {<<>>, <<"/">>},
     b \in SeqsUpTo({IP4a, IP4b}, MaxBoot - 1), r \in OtherFields}

\* e.Equal(e2) is called
CallEqual ==
  /\ ~eq.called
  /\ eq' = [eq EXCEPT !.called = TRUE, !.res = Equal(eq.e, eq.e2)]
  /\ UNCHANGED <<epVars, goVars, ret, prVars, ex, run, saved>>

InitEqual ==
  /\ EpInit({HostOther}, {<<>>}, {<<>>})
  /\ GoInit
  /\ ret = NotCalled
  /\ PrInit({<<>>}, {<<>>})
  /\ ex = ExIdle
  /\ run = 1
  /\ saved = NoSaved
  /\ eq \in {[called |-> FALSE, res |-> FALSE, e |-> a, e2 |-> b] :
               a \in EndpointValues, b \in EndpointValues}

NextEqual == CallEqual

SpecEqual == InitEqual /\ [][NextEqual]_vars

----------------------------------------------------------------------------
(* Properties of RoundTrip under concurrent first use (Spec).              *)

\* C1: however the callers of RoundTrip interleave on an endpoint whose
\* transport is unset, at most one transport is ever constructed, and every
\* dispatch goes through that one fully constructed handle, which is the
\* endpoint's handle: never through nil, never through a second one.
C1_ExactlyOneConstruction ==
  /\ built <= 1
  /\ \A k \in 1..Len(dispatched) :
       /\ built = 1
       /\ dispatched[k].handle # Unset
       /\ dispatched[k].handle.variant \in {"h2", "h3"}
       /\ dispatched[k].handle.id = 1
       /\ dispatched[k].handle = transport
       /\ dispatched[k].handle = dispatched[1].handle

\* C1 witness: one caller has dispatched while another, which found the
\* once not done and took the slow path without building anything itself, is
\* about to leave it.
C1_Witness_RacingCallers ==
  /\ dispatched # <<>>
  /\ \E g \in Callers :
       /\ pc[g] = "unlock"
       /\ ltr[g] = Unset
       /\ dispatched[1].g # g
       /\ built = 1

\* C2: once the handle is set, no step changes it: not a write of the
\* capability flag, not any later RoundTrip or Exchange.
C2_HandleNeverChanges == [][transport # Unset => transport' = transport]_vars

\* C2 witness: a dispatch made while the flag said HTTP/3 went through the
\* HTTP/2 handle chosen at first use (or the other way round).
C2_Witness_StaleFlag ==
  \E k \in 1..Len(dispatched) :
    /\ dispatched[k].handle # Unset
    /\ dispatched[k].flag # (dispatched[k].handle.variant = "h3")
    /\ sets = 1

\* C3: a step of RoundTrip or Exchange leaves every exported field of the
\* endpoint as it was, so String() and Equal() are unaffected.
C3_OnlyTransportWritten ==
  [][(\E g \in Callers : Call(g) \/ RoundTripStep(g))
       => (E' = E /\ String(E') = String(E) /\ Equal(E', E))]_vars

----------------------------------------------------------------------------
(* Properties of endpointAddrs (SpecAddrs).                                *)

\* an address with an explicit port, 443 when it had none
WithPort(a) == IF HasPort(a) THEN a ELSE JoinHostPort(a, Port443)

\* a list with every element given an explicit port
RECURSIVE WithPortAll(_)
WithPortAll(list) ==
  IF list = <<>> THEN <<>> ELSE <<WithPort(Head(list))>> \o WithPortAll(Tail(list))

\* the preferred address is one of the bootstrap addresses
PreferredPresent ==
  /\ FastestIP # <<>>
  /\ \E k \in 1..Len(Bootstrap) : WithPort(Bootstrap[k]) = WithPort(FastestIP)

\* the elements of a list other than x, in order
Others(list, x) == LET keep(a) == a # x IN SelectSeq(list, keep)

\* C4: every address returned carries an explicit port, and it is the input
\* address itself, or the input address with port 443 when it had no port.
C4_EveryAddressHasPort ==
  ret.called =>
    \A k \in 1..Len(ret.addrs) :
      /\ HasPort(ret.addrs[k])
      /\ \E a \in {Bootstrap[j] : j \in 1..Len(Bootstrap)} \cup {FastestIP} :
           ret.addrs[k] = WithPort(a)

\* C5: with a preferred address that is one of the bootstrap addresses, the
\* result is that address once, first, followed by the other bootstrap
\* addresses in their order, all with an explicit port.
C5_PreferredFirstOnce ==
  (ret.called /\ PreferredPresent) =>
    /\ ret.addrs # <<>>
    /\ ret.addrs[1] = WithPort(FastestIP)
    /\ Cardinality({k \in 1..Len(ret.addrs) : ret.addrs[k] = WithPort(FastestIP)}) = 1
    /\ Tail(ret.addrs) = Others(WithPortAll(Bootstrap), WithPort(FastestIP))

\* C6: with a preferred address that is none of the bootstrap addresses, the
\* result is that address followed by the whole bootstrap list; with no
\* preferred address it is the bootstrap list; all with an explicit port.
C6_PreferredAbsent ==
  (ret.called /\ ~PreferredPresent) =>
    IF FastestIP # <<>>
    THEN ret.addrs = <<WithPort(FastestIP)>> \o WithPortAll(Bootstrap)
    ELSE ret.addrs = WithPortAll(Bootstrap)

----------------------------------------------------------------------------
(* Properties of SupportsDoH3 (SpecProbe).                                 *)

\* an attempt that did not succeed
Failed(res) == res \in {"fail", "abort"}

\* C7: with an empty bootstrap list SupportsDoH3 dials nothing, builds no
\* HTTP/3 transport, sends no request, and returns false.
C7_EmptyListNoNetwork ==
  (bootstrapIPs = <<>>) =>
    /\ dials = <<>>
    /\ transports = <<>>
    /\ requests = <<>>
    /\ result # "true"
    /\ (ppc = "done" => result = "false")

\* C7 witness: SupportsDoH3 has returned for an empty list.
C7_Witness_EmptyDone == bootstrapIPs = <<>> /\ ppc = "done"

\* C8: when the k-th handshake succeeds after k-1 failures, the handshakes
\* made are those of addresses 1..k in order, none follows, the request
\* probe is never started, and SupportsDoH3 returns true.
C8_HandshakeShortCircuit ==
  \A k \in 1..Len(dials) :
    dials[k].res = "ok" =>
      /\ k = Len(dials)
      /\ \A j \in 1..k : dials[j].i = j
      /\ \A j \in 1..(k-1) : Failed(dials[j].res)
      /\ transports = <<>>
      /\ requests = <<>>
      /\ ppc \in {"A_ret", "done"}
      /\ (ppc = "done" => result = "true")

\* C8 witness: the second of three addresses completed the handshake and
\* SupportsDoH3 has returned.
C8_Witness_SecondSucceeds ==
  /\ ppc = "done"
  /\ Len(bootstrapIPs) = 3
  /\ Len(dials) = 2
  /\ dials[1].res = "fail"
  /\ dials[2].res = "ok"

\* C9: the request probe starts only after a failed handshake on every
\* address; it stops at the first 200, and SupportsDoH3 then returns true.
C9_RequestProbeFallback ==
  /\ (transports # <<>> \/ requests # <<>>) =>
       /\ Len(dials) = Len(bootstrapIPs)
       /\ \A j \in 1..Len(dials) : Failed(dials[j].res)
  /\ \A k \in 1..Len(requests) :
       /\ requests[k].i = k
       /\ requests[k].res = "200" =>
            /\ k = Len(requests)
            /\ ppc \in {"B_ret", "done"}
            /\ (ppc = "done" => result = "true")

\* C9 witness: every handshake failed, the second request got a 200 and
\* SupportsDoH3 has returned.
C9_Witness_SecondRequest200 ==
  /\ ppc = "done"
  /\ Len(bootstrapIPs) = 3
  /\ Len(dials) = 3
  /\ Len(requests) = 2
  /\ requests[1].res = "404"
  /\ requests[2].res = "200"

\* the deadline has expired and has aborted an attempt
Aborted ==
  /\ deadline = "expired"
  /\ \/ \E k \in 1..Len(dials) : dials[k].res = "abort"
     \/ \E k \in 1..Len(requests) : requests[k].res = "abort"

\* C10: once the deadline has aborted an attempt, no further handshake is
\* attempted, no further transport built and no further request sent.
C10_NoAttemptAfterAbort ==
  [][Aborted => (/\ Len(dials') = Len(dials)
                 /\ Len(transports') = Len(transports)
                 /\ Len(requests') = Len(requests))]_vars

----------------------------------------------------------------------------
(* Properties of Exchange (SpecExchange).                                  *)

\* C11: when the transport returns a response without error whose status is
\* not 200, Exchange returns the status error carrying that code, n = 0, and
\* the caller's buffer is as it was.
C11_Non200IsStatusError ==
  (ex.pc = "returned" /\ ex.o.err = "nil" /\ ex.o.status # 200) =>
    /\ ex.err = [kind |-> "status", code |-> ex.o.status]
    /\ ex.n = 0
    /\ ex.buf = ex.buf0

\* C11 witness: Exchange has returned after a 404.
C11_Witness_404 == ex.pc = "returned" /\ ex.o.err = "nil" /\ ex.o.status = 404

\* C12: whenever the transport handed back a response, with or without an
\* error, its body has been closed exactly once when Exchange returns.
C12_BodyReleasedOnce ==
  (ex.pc = "returned" /\ ex.o.resp) => ex.closed = 1

\* the call failed: a transport or certificate error, a status other than
\* 200, or a read error other than io.EOF
ExchangeFailed ==
  \/ ex.o.err # "nil"
  \/ ex.o.status # 200
  \/ ex.rerr \notin {"none", "nil", "EOF"}

\* C14: a call of Exchange dispatches one round trip, never a second one,
\* whatever comes back, and every failure is returned as a non-nil error.
C14_OneRoundTripNoRetry ==
  /\ ex.pc \in {"inflight", "line84", "line93", "line96", "line97", "returned"} =>
       Len(dispatched) - ex.d0 = 1
  /\ (ex.pc = "returned" /\ ExchangeFailed) => ex.err # NoErr
  /\ (ex.pc = "returned" /\ ~ExchangeFailed) => ex.err = NoErr

\* C14 witness: the second call of Exchange has returned after a failed read
\* of the body.
C14_Witness_ReadError ==
  /\ ex.pc = "returned"
  /\ ex.rerr = "read"
  /\ ex.d0 = 1

----------------------------------------------------------------------------
(* Properties of Equal (SpecEqual).                                        *)

\* C13: Equal is true exactly when Hostname, Path and the Bootstrap lists,
\* as sequences, are the same, whatever the other fields hold.
C13_EqualIsStructural ==
  eq.called =>
    (eq.res <=> /\ eq.e.Hostname = eq.e2.Hostname
                /\ eq.e.Path = eq.e2.Path
                /\ eq.e.Bootstrap = eq.e2.Bootstrap)

\* C13 witness: two endpoints with the same hostname and path and the same
\* two bootstrap addresses in another order were found unequal.
C13_Witness_OrderMatters ==
  /\ eq.called
  /\ ~eq.res
  /\ eq.e.Hostname = eq.e2.Hostname
  /\ eq.e.Path = eq.e2.Path
  /\ eq.e.Bootstrap = <<IP4a, IP4b>>
  /\ eq.e2.Bootstrap = <<IP4b, IP4a>>

----------------------------------------------------------------------------
(* Properties of the transport built at first use (Spec).                  *)

\* C15: the step that sets the handle sets an HTTP/3 transport if the flag is
\* true and an HTTP/2 one otherwise, bound to endpointAddrs(e) and to the
\* endpoint's hostname; the hostname changes only before the handle is set,
\* only with the flag true and only from a name equal to dns.nextdns.io up
\* to case, to doh3.dns.nextdns.io; with an HTTP/2 handle it was not rewritten.
C15_VariantFollowsFlag ==
  [][/\ (Hostname' # Hostname) =>
          /\ DoH3Supported
          /\ EqualFold(Hostname, HostNextDNS)
          /\ Hostname' = HostDoH3
          /\ transport = Unset
     /\ (transport = Unset /\ transport' # Unset) =>
          /\ transport'.variant = IF DoH3Supported THEN "h3" ELSE "h2"
          /\ transport'.addrs = endpointAddrs(Bootstrap, FastestIP)
          /\ transport'.hostname = Hostname
     /\ (transport'.variant = "h2") => Hostname' # HostDoH3
     /\ (transport'.variant = "h3") => ~EqualFold(Hostname', HostNextDNS)]_vars

\* C15 witness: an HTTP/3 handle bound to the rewritten hostname is in use.
C15_Witness_RewrittenH3 ==
  /\ transport # Unset
  /\ transport.variant = "h3"
  /\ transport.hostname = HostDoH3
  /\ dispatched # <<>>

----------------------------------------------------------------------------
(* Further properties of SupportsDoH3 (SpecProbe).                         *)

\* what endpointAddrs returns for the probe's bootstrap list and no preferred
\* address
OrderedProbeAddrs == endpointAddrs(bootstrapIPs, <<>>)

\* C16: the address of every handshake, and the one address of every HTTP/3
\* transport of the request probe, is the element of
\* endpointAddrs(bootstrapIPs, no preferred address) at the same position.
C16_ProbeUsesOrderedAddrs ==
  /\ \A k \in 1..Len(dials) : dials[k].addr = OrderedProbeAddrs[dials[k].i]
  /\ \A k \in 1..Len(transports) :
       transports[k].addrs = <<OrderedProbeAddrs[requests[k].i]>>


\* C17: SupportsDoH3 returns a boolean and nothing else: it returns false
\* when no handshake succeeded and no request got a 200, whatever the errors
\* were (a network error, a non-200 status, the expired deadline), and no such
\* error stops the call before it returns.
C17_OnlyABoolean ==
  /\ (ppc = "done") <=> (result \in {"true", "false"})
  /\ (ppc # "done") => (result = "none" /\ ENABLED NextProbe)
  /\ (/\ ppc = "done"
      /\ \A k \in 1..Len(dials) : Failed(dials[k].res)
      /\ \A k \in 1..Len(requests) : requests[k].res # "200")
       => result = "false"

\* C17 witness: both handshakes failed, one request ended in an error and the
\* other was cut by the deadline, and SupportsDoH3 has returned false.
C17_Witness_AllFailed ==
  /\ ppc = "done"
  /\ result = "false"
  /\ Len(dials) = 2
  /\ Len(requests) = 2
  /\ requests[1].res = "err"
  /\ requests[2].res = "abort"

----------------------------------------------------------------------------
(* SupportsDoH3 does not read the ALPN list (SpecAlpn).                    *)

\* C18: a second call with the same hostname, the same bootstrap list and
\* the same outcome of every attempt, but another ALPN list, makes the same
\* handshakes, builds the same transports, sends the same requests and returns
\* the same boolean as the first call.
C18_AlpnListIgnored ==
  (run = 2 /\ ppc = "done") =>
    /\ dials = saved.dials
    /\ transports = saved.transports
    /\ requests = saved.requests
    /\ result = saved.result

\* C18 witness: a call with an empty ALPN list has returned true after
\* handshakes and requests, as the call with h3 advertised did before it.
C18_Witness_NoH3StillProbes ==
  /\ run = 2
  /\ ppc = "done"
  /\ saved.alpnList = <<"h3", "h2">>
  /\ alpnList = <<>>
  /\ result = "true"
  /\ dials # <<>>
  /\ requests # <<>>

----------------------------------------------------------------------------
(* The address list bound to the cached handle (Spec).                     *)

\* C19: once the handle is stored, no step (a write to FastestIP or to
\* Bootstrap, or a step of any later RoundTrip or Exchange) builds another
\* transport or changes the address list bound to the handle, and every
\* dispatch goes through the handle with the list computed at construction.
C19_AddrsFixedAtConstruction ==
  [][transport # Unset =>
       /\ built' = built
       /\ transport' # Unset
       /\ transport'.addrs = transport.addrs
       /\ Len(dispatched') > Len(dispatched) =>
            /\ dispatched'[Len(dispatched')].handle # Unset
            /\ dispatched'[Len(dispatched')].handle.addrs = transport.addrs]_vars

\* C19 witness: a request was dispatched through the one handle ever built
\* when Bootstrap and FastestIP gave another address list than the one the
\* handle is bound to.
C19_Witness_StaleAddrs ==
  \E k \in 1..Len(dispatched) :
    /\ dispatched[k].handle # Unset
    /\ dispatched[k].handle.addrs # dispatched[k].want
    /\ built = 1
    /\ sets = 1

----------------------------------------------------------------------------
(* Termination and the number of attempts of SupportsDoH3 (SpecProbeFair). *)

\* C20: when every attempt returns, SupportsDoH3 returns; and at every moment
\* it has made at most one handshake and at most one request per bootstrap
\* address (at most 2*N attempts for N addresses), the k-th attempt of either
\* strategy being the one on the k-th bootstrap address.
C20_TerminatesWithin2N ==
  /\ <>(ppc = "done")
  /\ [](/\ Len(dials) <= Len(bootstrapIPs)
        /\ Len(requests) <= Len(bootstrapIPs)
        /\ Len(transports) = Len(requests)
        /\ Len(dials) + Len(requests) <= 2 * Len(bootstrapIPs)
        /\ \A k \in 1..Len(dials) :
             /\ dials[k].i = k
             /\ dials[k].addr = JoinHostPort(bootstrapIPs[k], Port443)
        /\ \A k \in 1..Len(requests) :
             /\ requests[k].i = k
             /\ transports[k].addrs = <<bootstrapIPs[k]>>)

\* C20 witness: with two bootstrap addresses the call has returned after four
\* attempts, a failed handshake and a failed request on each address.
C20_Witness_AllFourAttempts ==
  /\ ppc = "done"
  /\ Len(bootstrapIPs) = 2
  /\ Len(dials) = 2
  /\ Len(requests) = 2
  /\ result = "false"

====
